---------------------------- MODULE Spec2Model ----------------------------
(***************************************************************************)
(* TRM modernization application: the classification-and-risk core.        *)
(*                                                                         *)
(*   config.py          the taxonomy, the keyword map, the defaults        *)
(*   classification.py  rule_based_classify, llm_classify,                 *)
(*                      run_classification, classify_software              *)
(*   risk_assessment.py flag_risk, generate_risk_metrics                   *)
(*   data_processor.py  load_data / clean_data                             *)
(*   app.py             main: the "Run Classification" button and the      *)
(*                      dashboard's metrics                                *)
(*                                                                         *)
(* Python strings are TLA+ strings; str.lower, str.strip, str.split and    *)
(* the substring test are computed character by character.  A Python dict  *)
(* is a function together with the sequence of its keys in insertion       *)
(* order.  A DataFrame cell that may hold NaN is <<>> (NaN) or <<s>> (the  *)
(* string s); a row is a function on the set of its columns.               *)
(***************************************************************************)
EXTENDS Integers, Sequences, FiniteSets, TLC

VARIABLES
    pc,                     \* where the modelled call stands
    OPENAI_API_KEY,         \* config.OPENAI_API_KEY: NoKey, "" or a key
    product_name,           \* arguments of a classifier call
    description,
    hint,
    service,                \* what the text-completion service did in the call
    result,                 \* outcome of the classifier call
    row,                    \* argument of flag_risk
    risk,                   \* value flag_risk returned
    df,                     \* the DataFrame handed to run_classification / main's df
    method,                 \* the method handed to run_classification
    run,                    \* outcome of run_classification
    csv,                    \* app.py: the rows of the CSV file load_data reads
    classification_methods, \* app.py: the multiselect's selection, in order
    session_state,          \* app.py: st.session_state
    applied,                \* app.py: outcomes of the runs of one button press
    taxonomy,               \* config.py: the two module-level dicts
    cleaned,                \* results of successive clean_data calls
    metrics,                \* value generate_risk_metrics returned
    results,                \* classify_software's results dict
    view                    \* app.py: the filtered frame and the export made

vars == <<pc, OPENAI_API_KEY, product_name, description, hint, service, result,
          row, risk, df, method, run, csv, classification_methods,
          session_state, applied, taxonomy, cleaned, metrics, view, results,
          view>>

callVars == <<product_name, description, hint, service, result>>
riskVars == <<row, risk>>
runVars  == <<df, method, run>>
appVars  == <<csv, classification_methods, session_state, applied>>
aggVars  == <<cleaned, metrics, results, view>>

-----------------------------------------------------------------------------
(* Bounds of the model.                                                    *)

\* words joined into a description
MaxDescWords == 2
\* parts joined with ", " into a response of the service
MaxParts == 2
\* rows of a DataFrame
MaxRows == 2
\* rows of a frame handed to generate_risk_metrics
MaxMetricRows == 3
\* successive applications of clean_data
MaxCleanings == 2

-----------------------------------------------------------------------------
(* config.py                                                               *)

DEFAULT_RISK_FLAG == "Normal"
DEFAULT_DOMAIN    == "Unclassified"
DEFAULT_SUBDOMAIN == "Unclassified"

\* Keys of TRM_DOMAINS_SUBDOMAINS in insertion order.
TRM_DOMAINS_KEYS ==
    <<"Data Management", "Artificial Intelligence", "Security", "Network",
      "Development", "Unclassified">>

\* Mutant of TRM_DOMAINS_SUBDOMAINS: the sentinel domain has a second
\* subdomain.
TRM_DOMAINS_SUBDOMAINS_wide_sentinel ==
    [d \in {TRM_DOMAINS_KEYS[i] : i \in 1..Len(TRM_DOMAINS_KEYS)} |->
        CASE d = "Data Management" ->
                <<"Database Platforms", "Data Processing", "Data Storage">>
          [] d = "Artificial Intelligence" ->
                <<"ML Frameworks", "NLP Tools", "Computer Vision">>
          [] d = "Security" ->
                <<"Security Tools", "Authentication", "Encryption">>
          [] d = "Network" ->
                <<"Networking Tools", "Load Balancers", "API Gateways">>
          [] d = "Development" ->
                <<"IDEs", "Version Control", "CI/CD">>
          [] d = "Unclassified" ->
                <<"Unclassified", "Other">>]

TRM_DOMAINS_SUBDOMAINS ==
    [d \in {TRM_DOMAINS_KEYS[i] : i \in 1..Len(TRM_DOMAINS_KEYS)} |->
        CASE d = "Data Management" ->
                <<"Database Platforms", "Data Processing", "Data Storage">>
          [] d = "Artificial Intelligence" ->
                <<"ML Frameworks", "NLP Tools", "Computer Vision">>
          [] d = "Security" ->
                <<"Security Tools", "Authentication", "Encryption">>
          [] d = "Network" ->
                <<"Networking Tools", "Load Balancers", "API Gateways">>
          [] d = "Development" ->
                <<"IDEs", "Version Control", "CI/CD">>
          [] d = "Unclassified" ->
                <<"Unclassified">>]

\* Keys of CLASSIFICATION_KEYWORDS in insertion order.
CLASSIFICATION_KEYWORDS_KEYS ==
    <<"Data Management", "Artificial Intelligence", "Security", "Network",
      "Development">>

CLASSIFICATION_KEYWORDS ==
    [d \in {CLASSIFICATION_KEYWORDS_KEYS[i] :
                i \in 1..Len(CLASSIFICATION_KEYWORDS_KEYS)} |->
        CASE d = "Data Management" ->
                <<"database", "sql", "nosql", "data store", "postgresql",
                  "mysql", "mongodb", "redis">>
          [] d = "Artificial Intelligence" ->
                <<"machine learning", "ai", "ml", "artificial intelligence",
                  "deep learning", "tensorflow", "pytorch">>
          [] d = "Security" ->
                <<"security", "auth", "encryption", "firewall", "protection",
                  "vulnerability", "antivirus">>
          [] d = "Network" ->
                <<"network", "protocol", "routing", "traffic", "proxy",
                  "load balancer", "api gateway">>
          [] d = "Development" ->
                <<"ide", "git", "development", "programming", "code",
                  "compiler", "build", "cicd">>]

LIFECYCLE_STATUSES == <<"Active", "Deprecated", "Planned", "Beta">>

-----------------------------------------------------------------------------
(* Python's str operations, character by character.                        *)

Range(s) == {s[i] : i \in 1..Len(s)}

Min(S) == CHOOSE x \in S : \A y \in S : x <= y

Char(s, i) == SubSeq(s, i, i)

UpperLetters == "ABCDEFGHIJKLMNOPQRSTUVWXYZ"
LowerLetters == "abcdefghijklmnopqrstuvwxyz"

\* str.lower on one character
LowerChar(c) ==
    IF \E i \in 1..Len(UpperLetters) : Char(UpperLetters, i) = c
    THEN Char(LowerLetters,
              CHOOSE i \in 1..Len(UpperLetters) : Char(UpperLetters, i) = c)
    ELSE c

\* str.upper on one character
UpperChar(c) ==
    IF \E i \in 1..Len(LowerLetters) : Char(LowerLetters, i) = c
    THEN Char(UpperLetters,
              CHOOSE i \in 1..Len(LowerLetters) : Char(LowerLetters, i) = c)
    ELSE c

RECURSIVE lower(_)
lower(s) ==
    IF Len(s) = 0 THEN ""
    ELSE LowerChar(Char(s, 1)) \o lower(SubSeq(s, 2, Len(s)))

\* keyword in text
Contains(keyword, text) ==
    \E i \in 0..(Len(text) - Len(keyword)) :
        SubSeq(text, i + 1, i + Len(keyword)) = keyword

IsSpace(c) == c \in {" ", "\t", "\n", "\r"}

RECURSIVE lstrip(_)
lstrip(s) ==
    IF Len(s) > 0 /\ IsSpace(Char(s, 1))
    THEN lstrip(SubSeq(s, 2, Len(s)))
    ELSE s

RECURSIVE rstrip(_)
rstrip(s) ==
    IF Len(s) > 0 /\ IsSpace(Char(s, Len(s)))
    THEN rstrip(SubSeq(s, 1, Len(s) - 1))
    ELSE s

strip(s) == rstrip(lstrip(s))

\* s.split(sep): the parts between the non-overlapping occurrences of sep,
\* found left to right.
RECURSIVE split(_, _)
split(s, sep) ==
    LET hits == {i \in 1..(Len(s) - Len(sep) + 1) :
                    SubSeq(s, i, i + Len(sep) - 1) = sep}
    IN  IF hits = {} THEN <<s>>
        ELSE LET i == Min(hits)
             IN  <<SubSeq(s, 1, i - 1)>>
                 \o split(SubSeq(s, i + Len(sep), Len(s)), sep)

-----------------------------------------------------------------------------
(* classification.py: rule_based_classify                                  *)

\* any(keyword in desc_hint for keyword in keywords)
AnyKeyword(domain, desc_hint) ==
    \E k \in 1..Len(CLASSIFICATION_KEYWORDS[domain]) :
        Contains(CLASSIFICATION_KEYWORDS[domain][k], desc_hint)
\* Mutant of DescHint: the inputs are not lowercased.
DescHintNoLower(d, h) == d \o " " \o h

\* f"{str(description).lower()} {str(hint).lower()}"; d and h are strings,
\* the callers that pass DataFrame cells apply str() (PyStr).
DescHint(d, h) == lower(d) \o " " \o lower(h)
\* Mutant of FirstKeywordDomain: the last matching key wins.
LastKeywordDomain(desc_hint) ==
    LET hits == {i \in 1..Len(CLASSIFICATION_KEYWORDS_KEYS) :
                    AnyKeyword(CLASSIFICATION_KEYWORDS_KEYS[i], desc_hint)}
    IN  IF hits = {} THEN 0 ELSE CHOOSE i \in hits : \A j \in hits : j <= i

\* The first key of CLASSIFICATION_KEYWORDS, in the dict's order, one of
\* whose keywords is in the text; 0 when the loop ends without a return.
FirstKeywordDomain(desc_hint) ==
    LET hits == {i \in 1..Len(CLASSIFICATION_KEYWORDS_KEYS) :
                    AnyKeyword(CLASSIFICATION_KEYWORDS_KEYS[i], desc_hint)}
    IN  IF hits = {} THEN 0 ELSE Min(hits)

rule_based_classify(d, h) ==
    LET desc_hint == DescHint(d, h)
        i == FirstKeywordDomain(desc_hint)
    IN  IF i # 0
        THEN <<CLASSIFICATION_KEYWORDS_KEYS[i],
               TRM_DOMAINS_SUBDOMAINS[CLASSIFICATION_KEYWORDS_KEYS[i]][1]>>
        ELSE <<DEFAULT_DOMAIN, DEFAULT_SUBDOMAIN>>

-----------------------------------------------------------------------------
(* classification.py: llm_classify                                         *)

\* os.getenv("OPENAI_API_KEY"): None is <<>>, a string s is <<s>>.
NoKey == <<>>
\* Mutant of KeyMissing: only None counts as missing ("is None").
KeyIsNone(key) == key = NoKey

\* not config.OPENAI_API_KEY
KeyMissing(key) == key = NoKey \/ Len(key[1]) = 0

\* What the openai client and the service do during one call:
\*   fails = "client"   openai.OpenAI(api_key=...) raises
\*   fails = "create"   client.chat.completions.create(...) raises
\*   fails = "content"  reading response.choices[0].message.content, or
\*                      calling .lower() on a content of None, raises
\*   fails = "none"     the service answers with the text `content`
ClientRaises  == [fails |-> "client",  content |-> ""]
CreateRaises  == [fails |-> "create",  content |-> ""]
ContentRaises == [fails |-> "content", content |-> ""]
Responds(text) == [fails |-> "none", content |-> text]
NotCalled     == [fails |-> "uncalled", content |-> ""]

KEY_WARNING == "OpenAI API Key not configured. Using rule-based classification instead."
API_WARNING == "LLM API Error"

\* The request: the prompt embeds the three fields of the record.
Prompt(name, d, h) == [product_name |-> name, description |-> d, hint |-> h]

Outcome(raised, value, warnings, requests) ==
    [raised |-> raised, value |-> value, warnings |-> warnings,
     requests |-> requests]

NoOutcome == Outcome(FALSE, <<>>, <<>>, <<>>)
\* Mutant of ParseClassification: the subdomain is not validated.
ParseUnvalidated(classification) ==
    IF lower(classification) = "unclassified"
    THEN <<DEFAULT_DOMAIN, DEFAULT_SUBDOMAIN>>
    ELSE LET parts == split(classification, ", ")
         IN  IF Len(parts) # 2
             THEN <<DEFAULT_DOMAIN, DEFAULT_SUBDOMAIN>>
             ELSE IF strip(parts[1]) \in DOMAIN TRM_DOMAINS_SUBDOMAINS
                  THEN <<strip(parts[1]), strip(parts[2])>>
                  ELSE <<DEFAULT_DOMAIN, DEFAULT_SUBDOMAIN>>

\* Mutant of ParseClassification: an unknown subdomain discards the domain.
ParseDiscarding(classification) ==
    IF lower(classification) = "unclassified"
    THEN <<DEFAULT_DOMAIN, DEFAULT_SUBDOMAIN>>
    ELSE LET parts == split(classification, ", ")
         IN  IF /\ Len(parts) = 2
                /\ strip(parts[1]) \in DOMAIN TRM_DOMAINS_SUBDOMAINS
                /\ strip(parts[2])
                     \in Range(TRM_DOMAINS_SUBDOMAINS[strip(parts[1])])
             THEN <<strip(parts[1]), strip(parts[2])>>
             ELSE <<DEFAULT_DOMAIN, DEFAULT_SUBDOMAIN>>

\* Mutant of ParseClassification: an answer of more than two parts is read
\* by its first two.
ParseFirstTwoParts(classification) ==
    IF lower(classification) = "unclassified"
    THEN <<DEFAULT_DOMAIN, DEFAULT_SUBDOMAIN>>
    ELSE LET parts == split(classification, ", ")
         IN  IF Len(parts) < 2
             THEN <<DEFAULT_DOMAIN, DEFAULT_SUBDOMAIN>>
             ELSE LET domain    == strip(parts[1])
                      subdomain == strip(parts[2])
                  IN  IF /\ domain \in DOMAIN TRM_DOMAINS_SUBDOMAINS
                         /\ subdomain \in Range(TRM_DOMAINS_SUBDOMAINS[domain])
                      THEN <<domain, subdomain>>
                      ELSE IF domain \in DOMAIN TRM_DOMAINS_SUBDOMAINS
                           THEN <<domain, TRM_DOMAINS_SUBDOMAINS[domain][1]>>
                           ELSE <<DEFAULT_DOMAIN, DEFAULT_SUBDOMAIN>>

\* Mutant of ParseClassification: an answer without ", " is returned as it
\* was given.
ParseEchoingToken(classification) ==
    LET parts == split(classification, ", ")
    IN  IF Len(parts) = 1
        THEN <<classification, classification>>
        ELSE IF Len(parts) # 2
        THEN <<DEFAULT_DOMAIN, DEFAULT_SUBDOMAIN>>
        ELSE LET domain    == strip(parts[1])
                 subdomain == strip(parts[2])
             IN  IF /\ domain \in DOMAIN TRM_DOMAINS_SUBDOMAINS
                    /\ subdomain \in Range(TRM_DOMAINS_SUBDOMAINS[domain])
                 THEN <<domain, subdomain>>
                 ELSE IF domain \in DOMAIN TRM_DOMAINS_SUBDOMAINS
                      THEN <<domain, TRM_DOMAINS_SUBDOMAINS[domain][1]>>
                      ELSE <<DEFAULT_DOMAIN, DEFAULT_SUBDOMAIN>>

\* Lines 86-108: the validation of the service's answer.
ParseClassification(classification) ==
    IF lower(classification) = "unclassified"
    THEN <<DEFAULT_DOMAIN, DEFAULT_SUBDOMAIN>>
    ELSE LET parts == split(classification, ", ")
         IN  IF Len(parts) # 2
             THEN \* except ValueError
                  <<DEFAULT_DOMAIN, DEFAULT_SUBDOMAIN>>
             ELSE LET domain    == strip(parts[1])
                      subdomain == strip(parts[2])
                  IN  IF /\ domain \in DOMAIN TRM_DOMAINS_SUBDOMAINS
                         /\ subdomain \in Range(TRM_DOMAINS_SUBDOMAINS[domain])
                      THEN <<domain, subdomain>>
                      ELSE IF domain \in DOMAIN TRM_DOMAINS_SUBDOMAINS
                           THEN <<domain, TRM_DOMAINS_SUBDOMAINS[domain][1]>>
                           ELSE <<DEFAULT_DOMAIN, DEFAULT_SUBDOMAIN>>

\* Mutant of LlmFallback: the failure path answers with the sentinel.
LlmFallbackSentinel(d, h, requests) ==
    Outcome(FALSE, <<DEFAULT_DOMAIN, DEFAULT_SUBDOMAIN>>, <<API_WARNING>>,
            requests)

\* Lines 110-113: except Exception.
LlmFallback(d, h, requests) ==
    Outcome(FALSE, rule_based_classify(d, h), <<API_WARNING>>, requests)

llm_classify(name, d, h, key, svc) ==
    IF KeyMissing(key)
    THEN Outcome(FALSE, rule_based_classify(d, h), <<KEY_WARNING>>, <<>>)
    ELSE IF svc.fails = "client"
    THEN \* line 60 stands before the try: the exception leaves the function
         Outcome(TRUE, <<>>, <<>>, <<>>)
    ELSE IF svc.fails \in {"create", "content"}
    THEN LlmFallback(d, h, <<Prompt(name, d, h)>>)
    ELSE Outcome(FALSE, ParseClassification(svc.content), <<>>,
                 <<Prompt(name, d, h)>>)

-----------------------------------------------------------------------------
(* Inputs of the classifier calls.                                         *)

Words ==
    {"SQL", "firewall", "maintain", "calculator", "data", "Git", "proxy",
     "database", "security"}

JoinWord(t, w) == IF t = "" THEN w ELSE t \o " " \o w

RECURSIVE Texts(_)
Texts(n) ==
    IF n = 0 THEN {""}
    ELSE Texts(n - 1) \cup {JoinWord(t, w) : t \in Texts(n - 1), w \in Words}

Descriptions == Texts(MaxDescWords)

Hints == {"", "store", "Security", "IDE"}

\* The (description, hint) pairs of the llm_classify calls: no keyword, one
\* domain, two domains, a keyword across the joining space.
TextPairs ==
    {<<"", "">>, <<"a simple calculator", "">>, <<"SQL firewall", "">>,
     <<"firewall", "Git">>, <<"data", "store">>, <<"proxy", "">>,
     <<"maintain", "IDE">>}

ProductNames == {"Alpha", "Beta DB"}

ApiKeys == {NoKey, <<"">>, <<"sk-test">>}

ResponseParts ==
    {"Security", " Security", "security", "Authentication", "Firewalling",
     "Data Management", "Unclassified", "UNCLASSIFIED", "unclassified\n", ""}

RECURSIVE Joined(_)
Joined(n) ==
    IF n = 1 THEN ResponseParts
    ELSE Joined(n - 1)
         \cup {t \o ", " \o p : t \in Joined(n - 1), p \in ResponseParts}

\* Answers of three parts, one more than line 92 unpacks, and the sentinel
\* token inside whitespace.
LongResponses ==
    {t \o ", " \o p : t \in {"Security, Encryption", "Unclassified, Unclassified"},
                      p \in {"AES", "Encryption", ""}}

PaddedTokens == {" unclassified\n", " Unclassified", "\tUNCLASSIFIED "}

Responses == Joined(MaxParts) \cup LongResponses \cup PaddedTokens

ServiceBehaviours ==
    {ClientRaises, CreateRaises, ContentRaises}
    \cup {Responds(text) : text \in Responses}

-----------------------------------------------------------------------------
(* Idle values of the variables a specification does not use.              *)

NoRow == [x \in {} |-> <<>>]
NoFrame == [index |-> <<>>, rows |-> <<>>]
NoRun == [copied |-> TRUE, raised |-> FALSE, df |-> NoFrame, returned |-> <<>>,
          warnings |-> <<>>, requests |-> <<>>]
NoSession == [data_classified |-> FALSE, classified_df |-> NoFrame]
NoMetrics == [total |-> -1]
NoResults == [classifications |-> <<>>]
NoView == [filtered_df |-> NoFrame, exported |-> <<>>]

CallIdle == /\ product_name = "" /\ description = "" /\ hint = ""
            /\ service = NotCalled /\ result = NoOutcome
RiskIdle == row = NoRow /\ risk = ""
RunIdle  == df = NoFrame /\ method = "" /\ run = NoRun
AppIdle  == /\ csv = <<>> /\ classification_methods = <<>>
            /\ session_state = NoSession /\ applied = <<>>
AggIdle  == /\ cleaned = <<>> /\ metrics = NoMetrics /\ results = NoResults
            /\ view = NoView

\* config.py has been imported: the two dicts hold what lines 32-48 build.
\* The functions of classification.py read them; no statement of the
\* repository assigns to them, to their items or to their lists.
ConfigLoaded ==
    taxonomy = [TRM_DOMAINS_SUBDOMAINS |->
                    [keys |-> TRM_DOMAINS_KEYS, map |-> TRM_DOMAINS_SUBDOMAINS],
                CLASSIFICATION_KEYWORDS |->
                    [keys |-> CLASSIFICATION_KEYWORDS_KEYS,
                     map |-> CLASSIFICATION_KEYWORDS]]

-----------------------------------------------------------------------------
(* Calls of the two classifiers.                                           *)

CallRuleBasedClassify ==
    /\ pc = "start"
    /\ pc' = "rule_returned"
    /\ result' = Outcome(FALSE, rule_based_classify(description, hint),
                         <<>>, <<>>)
    /\ UNCHANGED <<OPENAI_API_KEY, taxonomy, aggVars, product_name,
                   description, hint, service,
                   riskVars, runVars, appVars>>

CallLlmClassify ==
    /\ pc = "start"
    /\ \E svc \in ServiceBehaviours :
        \E out \in {llm_classify(product_name, description, hint,
                                 OPENAI_API_KEY, svc)} :
            /\ result' = out
            /\ service' = IF KeyMissing(OPENAI_API_KEY) THEN NotCalled ELSE svc
            /\ pc' = IF out.raised THEN "llm_raised" ELSE "llm_returned"
    /\ UNCHANGED <<OPENAI_API_KEY, taxonomy, aggVars, product_name,
                   description, hint,
                   riskVars, runVars, appVars>>

\* rule_based_classify over the descriptions and hints.
InitRule ==
    /\ pc = "start"
    /\ OPENAI_API_KEY = NoKey
    /\ product_name = ""
    /\ description \in Descriptions
    /\ hint \in Hints
    /\ service = NotCalled
    /\ result = NoOutcome
    /\ RiskIdle /\ RunIdle /\ AppIdle /\ AggIdle /\ ConfigLoaded

NextRule == CallRuleBasedClassify

SpecRule == InitRule /\ [][NextRule]_vars

\* Both classifiers over the text pairs, the keys and the service's behaviours.
InitClassify ==
    /\ pc = "start"
    /\ OPENAI_API_KEY \in ApiKeys
    /\ product_name \in ProductNames
    /\ \E pair \in TextPairs : description = pair[1] /\ hint = pair[2]
    /\ service = NotCalled
    /\ result = NoOutcome
    /\ RiskIdle /\ RunIdle /\ AppIdle /\ AggIdle /\ ConfigLoaded

NextClassify == CallRuleBasedClassify \/ CallLlmClassify

SpecClassify == InitClassify /\ [][NextClassify]_vars

-----------------------------------------------------------------------------
(* risk_assessment.py: flag_risk                                           *)

\* pd.isnull(cell)
pd_isnull(cell) == cell = <<>>

\* 'col' in row and row['col'].lower() == status
LifecycleIs(r, status) ==
    /\ "Lifecycle Status" \in DOMAIN r
    /\ lower(r["Lifecycle Status"][1]) = status

\* 'Vendor' in row and (pd.isnull(row['Vendor']) or row['Vendor'].strip() == '')
VendorMissing(r) ==
    /\ "Vendor" \in DOMAIN r
    /\ (pd_isnull(r["Vendor"]) \/ strip(r["Vendor"][1]) = "")

\* 'TRM Domain' in row and row['TRM Domain'] == config.DEFAULT_DOMAIN
DomainIsDefault(r) ==
    /\ "TRM Domain" \in DOMAIN r
    /\ r["TRM Domain"] = <<DEFAULT_DOMAIN>>

\* Mutant of flag_risk: the beta rule is tried before the vendor and domain
\* rules.
flag_risk_beta_first(r) ==
    IF LifecycleIs(r, "deprecated") THEN "High-Risk"
    ELSE IF LifecycleIs(r, "beta") THEN "Medium-Risk"
    ELSE IF VendorMissing(r) THEN "High-Risk"
    ELSE IF DomainIsDefault(r) THEN "High-Risk"
    ELSE DEFAULT_RISK_FLAG

flag_risk(r) ==
    IF LifecycleIs(r, "deprecated") THEN "High-Risk"
    ELSE IF VendorMissing(r) THEN "High-Risk"
    ELSE IF DomainIsDefault(r) THEN "High-Risk"
    ELSE IF LifecycleIs(r, "beta") THEN "Medium-Risk"
    ELSE DEFAULT_RISK_FLAG

-----------------------------------------------------------------------------
(* Inputs of flag_risk.                                                    *)

RECURSIVE upper(_)
upper(s) ==
    IF Len(s) = 0 THEN ""
    ELSE UpperChar(Char(s, 1)) \o upper(SubSeq(s, 2, Len(s)))

\* The letter cases of a word: its first k letters in one case, the rest in
\* the other (lower, UPPER, Title, tITLE and those between).
CaseVariants(w) ==
    {upper(SubSeq(w, 1, k)) \o lower(SubSeq(w, k + 1, Len(w))) : k \in 0..Len(w)}
    \cup
    {lower(SubSeq(w, 1, k)) \o upper(SubSeq(w, k + 1, Len(w))) : k \in 0..Len(w)}

LifecycleInputs ==
    UNION {CaseVariants(LIFECYCLE_STATUSES[i]) : i \in 1..Len(LIFECYCLE_STATUSES)}

VendorInputs == {"", " ", " \t", "Acme", " Acme Corp "}

Column(name, cell) == [c \in {name} |-> cell]

\* A column of the row: absent, NaN, or one of the strings.
ColumnChoices(name, strings, nullable, optional) ==
    {Column(name, <<x>>) : x \in strings}
    \cup (IF nullable THEN {Column(name, <<>>)} ELSE {})
    \cup (IF optional THEN {NoRow} ELSE {})

RiskRows ==
    {l @@ v @@ d :
        l \in ColumnChoices("Lifecycle Status", LifecycleInputs, FALSE, TRUE),
        v \in ColumnChoices("Vendor", VendorInputs, TRUE, TRUE),
        d \in ColumnChoices("TRM Domain", Range(TRM_DOMAINS_KEYS), TRUE, TRUE)}

-----------------------------------------------------------------------------
(* A call of flag_risk.                                                    *)

CallFlagRisk ==
    /\ pc = "start"
    /\ pc' = "risk_returned"
    /\ risk' = flag_risk(row)
    /\ UNCHANGED <<OPENAI_API_KEY, taxonomy, aggVars, row, callVars, runVars,
                   appVars>>

InitRisk ==
    /\ pc = "start"
    /\ OPENAI_API_KEY = NoKey
    /\ row \in RiskRows
    /\ risk = ""
    /\ CallIdle /\ RunIdle /\ AppIdle /\ AggIdle /\ ConfigLoaded

NextRisk == CallFlagRisk

SpecRisk == InitRisk /\ [][NextRisk]_vars

-----------------------------------------------------------------------------
(* classification.py: run_classification                                   *)

AVAILABLE_METHODS == <<"rule-based", "llm-based">>
DEFAULT_METHODS == <<"rule-based">>

\* str(cell): NaN prints as "nan".
PyStr(cell) == IF pd_isnull(cell) THEN "nan" ELSE cell[1]

\* row['Category Hint'] if 'Category Hint' in row else ""
HintOf(r) == IF "Category Hint" \in DOMAIN r THEN r["Category Hint"] ELSE <<"">>

\* Mutant of At: a cell that already holds a value is kept.
AtKeepingValue(frame, idx, col, value) ==
    [frame EXCEPT !.rows =
        [j \in 1..Len(frame.rows) |->
            IF /\ frame.index[j] = idx
               /\ (col \notin DOMAIN frame.rows[j] \/ frame.rows[j][col] = <<>>)
            THEN (col :> <<value>>) @@ frame.rows[j]
            ELSE frame.rows[j] @@ (col :> <<>>)]]

\* result_df.at[idx, col] = value: every row labelled idx is set (with labels
\* that are not unique .at falls back to .loc); a new column holds NaN in
\* the other rows.
At(frame, idx, col, value) ==
    [frame EXCEPT !.rows =
        [j \in 1..Len(frame.rows) |->
            IF frame.index[j] = idx
            THEN (col :> <<value>>) @@ frame.rows[j]
            ELSE frame.rows[j] @@ (col :> <<>>)]]

\* Lines 181-185: the classifier call for one row.
ClassifyRow(r, m, key, svc) ==
    IF m = "rule-based"
    THEN Outcome(FALSE,
                 rule_based_classify(PyStr(r["Description"]), PyStr(HintOf(r))),
                 <<>>, <<>>)
    ELSE llm_classify(PyStr(r["Product Name"]), PyStr(r["Description"]),
                      PyStr(HintOf(r)), key, svc)

\* The function without the copy of line 173: result_df is another name of
\* the caller's frame, so every write of the loop lands in the input.
RunStartInPlace(frame) ==
    [copied |-> FALSE, raised |-> FALSE, df |-> frame, returned |-> <<>>,
     warnings |-> <<>>, requests |-> <<>>]

\* Line 173: result_df = df.copy(), before the first turn of the loop.
\* `copied` records that result_df is a frame of its own.
RunStart(frame) ==
    [copied |-> TRUE, raised |-> FALSE, df |-> frame, returned |-> <<>>,
     warnings |-> <<>>, requests |-> <<>>]

\* Lines 176-189: the turn of the loop for the row at position i, whose
\* classifier call ended as `out`.  acc holds result_df and what the calls
\* so far returned, warned and requested; an exception of the classifier
\* leaves the loop and the function.
RunRow(acc, frame, i, out) ==
    IF out.raised
    THEN [acc EXCEPT !.raised = TRUE,
                     !.warnings = @ \o out.warnings,
                     !.requests = @ \o out.requests]
    ELSE [copied |-> acc.copied,
          raised |-> FALSE,
          df |-> At(At(acc.df, frame.index[i], "TRM Domain", out.value[1]),
                    frame.index[i], "TRM Subdomain", out.value[2]),
          returned |-> Append(acc.returned, out.value),
          warnings |-> acc.warnings \o out.warnings,
          requests |-> acc.requests \o out.requests]

-----------------------------------------------------------------------------
(* data_processor.py: load_data, clean_data                                *)

\* Series.fillna('')
fillna(cell) == IF pd_isnull(cell) THEN <<"">> ELSE cell

\* Series.str.strip(): NaN stays NaN
str_strip(cell) == IF pd_isnull(cell) THEN cell ELSE <<strip(cell[1])>>

\* Series.str.lower(): NaN stays NaN
str_lower(cell) == IF pd_isnull(cell) THEN cell ELSE <<lower(cell[1])>>

\* status_mapping.get(x, 'Active') if pd.notnull(x) else 'Active'
MapStatus(cell) ==
    IF pd_isnull(cell) THEN <<"Active">>
    ELSE CASE cell[1] = "active"     -> <<"Active">>
           [] cell[1] = "deprecated" -> <<"Deprecated">>
           [] cell[1] = "beta"       -> <<"Beta">>
           [] cell[1] = "planned"    -> <<"Planned">>
           [] OTHER                  -> <<"Active">>

CleanRow(r) ==
    LET filled == [r EXCEPT !["Description"] = fillna(@),
                            !["Category Hint"] = fillna(@),
                            !["Product Name"] = str_strip(@)]
        mapped == IF "Lifecycle Status" \in DOMAIN r
                  THEN [filled EXCEPT !["Lifecycle Status"] =
                                          MapStatus(str_lower(@))]
                  ELSE filled
    IN  mapped @@ [c \in {"TRM Domain", "TRM Subdomain", "Risk Flag"} |-> <<>>]

clean_data(frame) ==
    [frame EXCEPT !.rows = [i \in 1..Len(frame.rows) |-> CleanRow(frame.rows[i])]]

\* pd.read_csv: the rows of the file under a RangeIndex 0..n-1
read_csv(file) ==
    [index |-> [i \in 1..Len(file) |-> i - 1], rows |-> file]

load_data(file) == clean_data(read_csv(file))

-----------------------------------------------------------------------------
(* Inputs of run_classification and of the application.                    *)

CsvRow(name, d, h, vendor, status) ==
    [c \in {"Product Name", "Description", "Category Hint", "Vendor",
            "Lifecycle Status"} |->
        CASE c = "Product Name"     -> name
          [] c = "Description"      -> d
          [] c = "Category Hint"    -> h
          [] c = "Vendor"           -> vendor
          [] c = "Lifecycle Status" -> status]

CsvRows ==
    {CsvRow(<<"Alpha ">>, <<"SQL firewall">>, <<"Security">>, <<"Acme">>,
            <<"beta">>),
     CsvRow(<<"Beta DB">>, <<>>, <<>>, <<>>, <<"retired">>),
     CsvRow(<<"Gamma">>, <<"a simple calculator">>, <<"IDE">>, <<" ">>,
            <<"DEPRECATED">>)}

\* The sequences over S of length at most n
SeqsUpTo(S, n) == UNION {[1..k -> S] : k \in 0..n}

CsvFiles == SeqsUpTo(CsvRows, MaxRows)

\* The selections of the multiselect: the available methods, each at most
\* once, in the order chosen.
Selections ==
    {sel \in SeqsUpTo(Range(AVAILABLE_METHODS), Len(AVAILABLE_METHODS)) :
        \A i, j \in 1..Len(sel) : sel[i] = sel[j] => i = j}

\* What the client and the service do in the calls of one run.
RunServiceBehaviours ==
    {ClientRaises, CreateRaises, Responds("Security, Encryption"),
     Responds("Unclassified")}

\* The methods handed to run_classification; one is not an available method.
RunMethods == {"rule-based", "llm-based", "hybrid"}

\* Cleaned rows with or without the optional hint column.
RunRowPools ==
    {{CleanRow(r) : r \in CsvRows},
     {[c \in DOMAIN CleanRow(r) \ {"Category Hint"} |-> CleanRow(r)[c]] :
        r \in CsvRows}}

\* DataFrames of at most MaxRows rows under any row labels in 0..MaxRows-1.
RunFrames ==
    {[index |-> ix, rows |-> rs] :
        <<ix, rs>> \in
            UNION {[1..k -> 0..(MaxRows - 1)] \X [1..k -> pool] :
                        k \in 0..MaxRows, pool \in RunRowPools}}

-----------------------------------------------------------------------------
(* data_processor.py: clean_data on raw frames.                            *)
(*                                                                         *)
(* pandas gives a non-empty column whose values are all NaN the dtype      *)
(* float64 (read_csv and the DataFrame constructor both do), and the .str  *)
(* accessor of a float64 column raises AttributeError.                     *)

\* frame[col].str raises
StrAccessorRaises(frame, col) ==
    /\ Len(frame.rows) > 0
    /\ \A i \in 1..Len(frame.rows) : pd_isnull(frame.rows[i][col])

\* Lines 75 and 88-91: the two uses of .str, the second one inside the test
\* for the column.
CleanDataRaises(frame) ==
    \/ StrAccessorRaises(frame, "Product Name")
    \/ /\ Len(frame.rows) > 0
       /\ "Lifecycle Status" \in DOMAIN frame.rows[1]
       /\ StrAccessorRaises(frame, "Lifecycle Status")

\* Lifecycle statuses of a raw file: the four names in some letter cases,
\* other texts, nothing.
RawStatuses ==
    UNION {{<<LIFECYCLE_STATUSES[i]>>, <<lower(LIFECYCLE_STATUSES[i])>>,
            <<upper(LIFECYCLE_STATUSES[i])>>,
            <<lower(SubSeq(LIFECYCLE_STATUSES[i], 1, 2))
                \o upper(SubSeq(LIFECYCLE_STATUSES[i], 3,
                                Len(LIFECYCLE_STATUSES[i])))>>} :
           i \in 1..Len(LIFECYCLE_STATUSES)}
    \cup {<<"retired">>, <<" active">>, <<"">>, <<>>}

RawRow(status) == CsvRow(<<" Alpha ">>, <<>>, <<"IDE">>, <<"Acme">>, status)

\* Frames read from a file, with the Lifecycle Status column or without it.
RawFrames ==
    {read_csv(file) : file \in SeqsUpTo({RawRow(s) : s \in RawStatuses}, MaxRows)}
    \cup {read_csv([i \in 1..n |->
                       [c \in DOMAIN RawRow(<<>>) \ {"Lifecycle Status"} |->
                           RawRow(<<>>)[c]]]) : n \in 1..MaxRows}

\* clean_data applied to the raw frame, then to its own result.
CallCleanData ==
    /\ pc \in {"start", "cleaned"}
    /\ Len(cleaned) < MaxCleanings
    /\ \E frame \in {IF cleaned = <<>> THEN df ELSE cleaned[Len(cleaned)]} :
          IF CleanDataRaises(frame)
          THEN pc' = "clean_raised" /\ cleaned' = cleaned
          ELSE pc' = "cleaned" /\ cleaned' = Append(cleaned, clean_data(frame))
    /\ UNCHANGED <<OPENAI_API_KEY, taxonomy, metrics, results, view, df,
                   method, run,
                   callVars, riskVars, appVars>>

InitClean ==
    /\ pc = "start"
    /\ OPENAI_API_KEY = NoKey
    /\ df \in RawFrames
    /\ method = "" /\ run = NoRun
    /\ CallIdle /\ RiskIdle /\ AppIdle /\ AggIdle /\ ConfigLoaded

NextClean == CallCleanData

SpecClean == InitClean /\ [][NextClean]_vars

-----------------------------------------------------------------------------
(* A call of run_classification(df, method).                               *)

\* Lines 172-173
EnterRunClassification ==
    /\ pc = "start"
    /\ run' = RunStart(df)
    /\ pc' = "run_loop"
    /\ UNCHANGED <<OPENAI_API_KEY, taxonomy, aggVars, df, method, callVars,
                   riskVars, appVars>>

\* Lines 176-189: the next row is classified and written; the client and
\* the service behave in one of the ways of RunServiceBehaviours.
ClassifyNextRow ==
    /\ pc = "run_loop"
    /\ Len(run.returned) < Len(df.rows)
    /\ \E svc \in RunServiceBehaviours :
        \E out \in {ClassifyRow(df.rows[Len(run.returned) + 1], method,
                                OPENAI_API_KEY, svc)} :
            \E next \in {RunRow(run, df, Len(run.returned) + 1, out)} :
                /\ run' = next
                /\ df' = IF next.copied THEN df ELSE next.df
                /\ pc' = IF out.raised THEN "run_raised" ELSE "run_loop"
    /\ UNCHANGED <<OPENAI_API_KEY, taxonomy, aggVars, method, callVars,
                   riskVars, appVars>>

\* Line 191
ReturnRunClassification ==
    /\ pc = "run_loop"
    /\ Len(run.returned) = Len(df.rows)
    /\ pc' = "run_returned"
    /\ UNCHANGED <<OPENAI_API_KEY, taxonomy, aggVars, runVars, callVars,
                   riskVars, appVars>>

InitRun ==
    /\ pc = "start"
    /\ OPENAI_API_KEY \in {NoKey, <<"sk-test">>}
    /\ df \in RunFrames
    /\ method \in RunMethods
    /\ run = NoRun
    /\ CallIdle /\ RiskIdle /\ AppIdle /\ AggIdle /\ ConfigLoaded

NextRun ==
    EnterRunClassification \/ ClassifyNextRow \/ ReturnRunClassification

SpecRun == InitRun /\ [][NextRun]_vars

-----------------------------------------------------------------------------
(* classification.py: classify_software                                    *)

\* Lines 126-130: the results dict before the loop.
SoftwareStart ==
    [classifications |-> <<>>,
     domain_counts |-> [keys |-> <<>>, map |-> [d \in {} |-> 0]],
     unclassified_count |-> 0]

\* Mutant of CountDomain: the count of a domain seen again starts over.
CountDomainAnew(counts, domain) ==
    IF domain \in DOMAIN counts.map
    THEN [counts EXCEPT !.map[domain] = 1]
    ELSE [keys |-> Append(counts.keys, domain),
          map |-> (domain :> 1) @@ counts.map]

\* Lines 151-154: results['domain_counts'][domain] is incremented, or set
\* to 1 under a new key.
CountDomain(counts, domain) ==
    IF domain \in DOMAIN counts.map
    THEN [counts EXCEPT !.map[domain] = @ + 1]
    ELSE [keys |-> Append(counts.keys, domain),
          map |-> (domain :> 1) @@ counts.map]

\* Lines 147-157: the pair the classifier returned is appended and counted.
SoftwareRow(acc, pair) ==
    [classifications |-> Append(acc.classifications, pair),
     domain_counts |-> CountDomain(acc.domain_counts, pair[1]),
     unclassified_count |->
         IF pair[1] = DEFAULT_DOMAIN
         THEN acc.unclassified_count + 1
         ELSE acc.unclassified_count]

\* The batches handed to classify_software: the loop does not read the row
\* labels.
SoftwareFrames ==
    {read_csv(rs) : rs \in UNION {SeqsUpTo(pool, MaxRows) : pool \in RunRowPools}}

EnterClassifySoftware ==
    /\ pc = "start"
    /\ results' = SoftwareStart
    /\ pc' = "software_loop"
    /\ UNCHANGED <<OPENAI_API_KEY, taxonomy, cleaned, metrics, view, runVars,
                   callVars, riskVars, appVars>>

\* Lines 136-157: one turn of the loop; an exception of the classifier
\* leaves the function without a result.
ClassifySoftwareRow ==
    /\ pc = "software_loop"
    /\ Len(results.classifications) < Len(df.rows)
    /\ \E svc \in RunServiceBehaviours :
        \E out \in {ClassifyRow(df.rows[Len(results.classifications) + 1],
                                method, OPENAI_API_KEY, svc)} :
            IF out.raised
            THEN pc' = "software_raised" /\ results' = results
            ELSE pc' = "software_loop"
                 /\ results' = SoftwareRow(results, out.value)
    /\ UNCHANGED <<OPENAI_API_KEY, taxonomy, cleaned, metrics, view, runVars,
                   callVars, riskVars, appVars>>

\* Line 159
ReturnClassifySoftware ==
    /\ pc = "software_loop"
    /\ Len(results.classifications) = Len(df.rows)
    /\ pc' = "software_returned"
    /\ UNCHANGED <<OPENAI_API_KEY, taxonomy, aggVars, runVars, callVars,
                   riskVars, appVars>>

InitSoftware ==
    /\ pc = "start"
    /\ OPENAI_API_KEY \in {NoKey, <<"sk-test">>}
    /\ df \in SoftwareFrames
    /\ method \in RunMethods
    /\ run = NoRun
    /\ CallIdle /\ RiskIdle /\ AppIdle /\ AggIdle /\ ConfigLoaded

NextSoftware ==
    EnterClassifySoftware \/ ClassifySoftwareRow \/ ReturnClassifySoftware

SpecSoftware == InitSoftware /\ [][NextSoftware]_vars

-----------------------------------------------------------------------------
(* risk_assessment.py: generate_risk_metrics                               *)
(*                                                                         *)
(* The frame carries its columns beside its rows, since an empty frame     *)
(* has columns too.  A percentage, a float rounded to one decimal, is the  *)
(* integer number of its tenths: 33.3 is 333.                              *)

\* df[col]
Series(frame, col) == [i \in 1..Len(frame.rows) |-> frame.rows[i][col]]

\* Mutant of value_counts: every level is a key, also with count 0.
value_counts_all_levels(cells) ==
    [k \in {"High-Risk", "Medium-Risk", "Normal"} |->
        Cardinality({i \in 1..Len(cells) : cells[i] = <<k>>})]

\* series.value_counts().to_dict(): the values that occur, NaN dropped,
\* each with the number of its occurrences.
value_counts(cells) ==
    [k \in {cells[i][1] : i \in {j \in 1..Len(cells) : cells[j] # <<>>}} |->
        Cardinality({i \in 1..Len(cells) : cells[i] = <<k>>})]

\* Mutant of RoundPercent: the second decimal is cut off.
TruncatePercent(v, total) == (1000 * v) \div total

\* round(v / total * 100, 1) in tenths: the nearest tenth, a tie going to
\* the even tenth.  v / total * 100 lies halfway between two tenths only
\* when 16 divides total, and is then exact in binary floating point.
RoundPercent(v, total) ==
    LET q == (1000 * v) \div total
        r == (1000 * v) % total
    IN  IF 2 * r < total THEN q
        ELSE IF 2 * r > total THEN q + 1
        ELSE IF q % 2 = 0 THEN q ELSE q + 1

\* len(df[df[col] == value]) if col in df.columns else 0
CountEqual(frame, col, value) ==
    IF col \in frame.columns
    THEN Cardinality({i \in 1..Len(frame.rows) : frame.rows[i][col] = <<value>>})
    ELSE 0

\* len(df[df['Vendor'].isnull() | (df['Vendor'] == '')]) if the column exists
CountMissingVendor(frame) ==
    IF "Vendor" \in frame.columns
    THEN Cardinality({i \in 1..Len(frame.rows) :
                         \/ pd_isnull(frame.rows[i]["Vendor"])
                         \/ frame.rows[i]["Vendor"] = <<"">>})
    ELSE 0

\* The dict comprehension on line 58 divides by total once for each key of
\* risk_counts: with a key and total = 0 it raises ZeroDivisionError.
generate_risk_metrics(frame) ==
    LET risk_counts ==
            IF "Risk Flag" \in frame.columns
            THEN value_counts(Series(frame, "Risk Flag"))
            ELSE [k \in {} |-> 0]
        total == Len(frame.rows)
    IN  IF DOMAIN risk_counts # {} /\ total = 0
        THEN [raised |-> TRUE, total |-> total]
        ELSE [raised |-> FALSE,
              counts |-> risk_counts,
              percentages |->
                  [k \in DOMAIN risk_counts |-> RoundPercent(risk_counts[k], total)],
              deprecated_count |-> CountEqual(frame, "Lifecycle Status", "Deprecated"),
              missing_vendor_count |-> CountMissingVendor(frame),
              unclassified_count |-> CountEqual(frame, "TRM Domain", DEFAULT_DOMAIN),
              total |-> total]

-----------------------------------------------------------------------------
(* Inputs of generate_risk_metrics.                                        *)

MetricColumns == {"Lifecycle Status", "Vendor", "TRM Domain", "Risk Flag"}

\* Combinations of the three fields the sub-counts read.
MetricFields ==
    { Column("Lifecycle Status", <<"Deprecated">>) @@ Column("Vendor", <<"Acme">>)
          @@ Column("TRM Domain", <<"Security">>),
      Column("Lifecycle Status", <<"Active">>) @@ Column("Vendor", <<"">>)
          @@ Column("TRM Domain", <<DEFAULT_DOMAIN>>),
      Column("Lifecycle Status", <<"Beta">>) @@ Column("Vendor", <<>>)
          @@ Column("TRM Domain", <<>>) }

RiskFlags == {<<>>, <<"High-Risk">>, <<"Medium-Risk">>, <<DEFAULT_RISK_FLAG>>}

MetricRows == {f @@ Column("Risk Flag", flag) : f \in MetricFields, flag \in RiskFlags}

\* The row without the columns the frame does not have.
Project(r, columns) == [c \in DOMAIN r \cap columns |-> r[c]]

\* Frames of at most MaxMetricRows rows that have all four columns or lack
\* one of them; the empty frame may have no column at all.
MetricFrames ==
    {[index |-> [i \in 1..Len(rows) |-> i - 1],
      columns |-> columns,
      rows |-> [i \in 1..Len(rows) |-> Project(rows[i], columns)]] :
        rows \in SeqsUpTo(MetricRows, MaxMetricRows),
        columns \in {MetricColumns} \cup {MetricColumns \ {c} : c \in MetricColumns}}
    \cup {[index |-> <<>>, columns |-> {}, rows |-> <<>>]}

-----------------------------------------------------------------------------
(* A call of generate_risk_metrics.                                        *)

CallGenerateRiskMetrics ==
    /\ pc = "start"
    /\ \E out \in {generate_risk_metrics(df)} :
          /\ metrics' = out
          /\ pc' = IF out.raised THEN "metrics_raised" ELSE "metrics_returned"
    /\ UNCHANGED <<OPENAI_API_KEY, taxonomy, cleaned, results, view, df, method, run,
                   callVars, riskVars, appVars>>

InitMetrics ==
    /\ pc = "start"
    /\ OPENAI_API_KEY = NoKey
    /\ df \in MetricFrames
    /\ method = "" /\ run = NoRun
    /\ CallIdle /\ RiskIdle /\ AppIdle /\ AggIdle /\ ConfigLoaded

NextMetrics == CallGenerateRiskMetrics

SpecMetrics == InitMetrics /\ [][NextMetrics]_vars

-----------------------------------------------------------------------------
(* app.py: main, the "Run Classification" button.                          *)

\* Lines 78-83: the button is pressed with some selection of methods; the
\* data is loaded and cleaned.
PressRunClassification ==
    /\ pc = "idle"
    /\ \E sel \in Selections : classification_methods' = sel
    /\ df' = load_data(csv)
    /\ applied' = <<>>
    /\ pc' = "classifying"
    /\ UNCHANGED <<OPENAI_API_KEY, taxonomy, aggVars, csv, session_state,
                   method, run, callVars,
                   riskVars>>

\* Lines 86-88: the loop over the selected methods calls
\* run_classification(df, method) with the next method.
ApplyNextMethod ==
    /\ pc = "classifying"
    /\ Len(applied) < Len(classification_methods)
    /\ method' = classification_methods[Len(applied) + 1]
    /\ run' = RunStart(df)
    /\ pc' = "run_loop"
    /\ UNCHANGED <<OPENAI_API_KEY, taxonomy, aggVars, df, appVars, callVars,
                   riskVars>>

\* Line 88: df = run_classification(df, method) returns.
AssignRunResult ==
    /\ pc = "run_loop"
    /\ Len(run.returned) = Len(df.rows)
    /\ df' = run.df
    /\ applied' = Append(applied, run)
    /\ pc' = "classifying"
    /\ UNCHANGED <<OPENAI_API_KEY, taxonomy, aggVars, csv,
                   classification_methods, session_state,
                   method, run, callVars, riskVars>>

\* Mutant of ApplyFlagRisk: the rows are scored as they were loaded, before
\* any strategy wrote a domain.
ApplyFlagRiskAsLoaded(frame) ==
    [frame EXCEPT !.rows =
        [i \in 1..Len(frame.rows) |->
            [frame.rows[i] EXCEPT !["Risk Flag"] =
                <<flag_risk([frame.rows[i] EXCEPT !["TRM Domain"] = <<>>])>>]]]

\* df['Risk Flag'] = df.apply(flag_risk, axis=1)
ApplyFlagRisk(frame) ==
    [frame EXCEPT !.rows =
        [i \in 1..Len(frame.rows) |->
            [frame.rows[i] EXCEPT !["Risk Flag"] = <<flag_risk(frame.rows[i])>>]]]

\* Lines 91-97: the risk assessment and the save into session_state.  On a
\* frame without rows df.apply(flag_risk, axis=1) gives back a DataFrame, not
\* a Series, and the assignment to the single column either raises
\* ValueError or leaves the frame empty, depending on the pandas at hand.
AssessRisk ==
    /\ pc = "classifying"
    /\ Len(applied) = Len(classification_methods)
    /\ \E raises \in (IF Len(df.rows) = 0 THEN {TRUE, FALSE} ELSE {FALSE}) :
        IF raises
        THEN pc' = "assess_raised" /\ UNCHANGED <<df, session_state>>
        ELSE \E scored \in {ApplyFlagRisk(df)} :
                /\ df' = scored
                /\ session_state' = [data_classified |-> TRUE,
                                     classified_df |-> scored]
                /\ pc' = "classified"
    /\ UNCHANGED <<OPENAI_API_KEY, taxonomy, aggVars, csv,
                   classification_methods, applied,
                   method, run, callVars, riskVars>>

\* The columns of main's frame: those of the file and the three clean_data
\* adds.
AppColumns ==
    DOMAIN CsvRow(<<>>, <<>>, <<>>, <<>>, <<>>)
        \cup {"TRM Domain", "TRM Subdomain", "Risk Flag"}

\* Lines 131-136: the script goes on to the dashboard and computes the
\* metrics of the stored frame.
RenderDashboard ==
    /\ pc = "classified"
    /\ session_state.data_classified
    /\ \E out \in {generate_risk_metrics(
                      [index |-> session_state.classified_df.index,
                       columns |-> AppColumns,
                       rows |-> session_state.classified_df.rows])} :
          /\ metrics' = out
          /\ pc' = IF out.raised THEN "dashboard_raised" ELSE "displayed"
    /\ UNCHANGED <<OPENAI_API_KEY, taxonomy, cleaned, results, view, runVars,
                   callVars, riskVars, appVars>>

UI_SELECT_ALL == "All"

\* data_processor.py, get_unique_values: for each of the three columns the
\* options of its selectbox, "All" and the values that occur (NaN dropped).
\* The order of the list only matters to the display.
get_unique_values(frame) ==
    [column \in {"TRM Domain", "Lifecycle Status", "Risk Flag"} |->
        {UI_SELECT_ALL}
            \cup {frame.rows[i][column][1] :
                      i \in {j \in 1..Len(frame.rows) :
                                 ~pd_isnull(frame.rows[j][column])}}]

\* series.str.lower().str.contains(term) for a term of letters, which as a
\* regular expression matches itself; a NaN cell does not match.
str_contains(cell, term) ==
    IF pd_isnull(cell) THEN FALSE
    ELSE \E text \in {lower(cell[1])} : Contains(term, text)

\* Lines 125-143 of data_processor.py: the tests a row has to pass.  An
\* argument is <<>> (None) or <<s>>.  The code applies the four tests one
\* after the other, the search first; a row is kept when it passes all of
\* them, and the three comparisons are written first here.
FilterKeeps(r, search_term, domain, status, risk_level) ==
    /\ (domain # <<>> /\ domain # <<"">> /\ domain # <<UI_SELECT_ALL>>)
          => r["TRM Domain"] = domain
    /\ (status # <<>> /\ status # <<"">> /\ status # <<UI_SELECT_ALL>>)
          => r["Lifecycle Status"] = status
    /\ (risk_level # <<>> /\ risk_level # <<"">>
            /\ risk_level # <<UI_SELECT_ALL>>)
          => r["Risk Flag"] = risk_level
    /\ (search_term # <<>> /\ Len(strip(search_term[1])) > 0)
          => \E term \in {lower(strip(search_term[1]))} :
                \/ str_contains(r["Product Name"], term)
                \/ str_contains(r["Description"], term)

RECURSIVE SelectPositions(_, _)
\* The members of a set of positions in increasing order.
SelectPositions(S, n) ==
    IF n = 0 THEN <<>>
    ELSE IF n \in S THEN Append(SelectPositions(S, n - 1), n)
    ELSE SelectPositions(S, n - 1)

\* data_processor.py, filter_data: a copy of the frame with the rows that
\* pass, under their labels.
filter_data(frame, search_term, domain, status, risk_level) ==
    LET kept == SelectPositions(
                    {i \in 1..Len(frame.rows) :
                        FilterKeeps(frame.rows[i], search_term, domain, status,
                                    risk_level)},
                    Len(frame.rows))
    IN  [index |-> [k \in 1..Len(kept) |-> frame.index[kept[k]]],
         rows |-> [k \in 1..Len(kept) |-> frame.rows[kept[k]]]]

\* What the user types into the search box.
SearchTerms == {"", " SQL ", "gam"}

\* The value main passes for a selectbox: None for "All".
SelectboxArgument(choice) == IF choice = UI_SELECT_ALL THEN <<>> ELSE <<choice>>

\* Lines 139-154: the filters are rendered with the values of the stored
\* frame, the user's choices are read, and the frame is filtered.
FilterData ==
    /\ pc = "displayed"
    /\ \E unique_values \in {get_unique_values(session_state.classified_df)} :
        \E search_term \in SearchTerms :
        \E domain \in unique_values["TRM Domain"] :
        \E status \in unique_values["Lifecycle Status"] :
        \E risk_level \in unique_values["Risk Flag"] :
            view' = [view EXCEPT !.filtered_df =
                        filter_data(session_state.classified_df,
                                    <<search_term>>,
                                    SelectboxArgument(domain),
                                    SelectboxArgument(status),
                                    SelectboxArgument(risk_level))]
    /\ pc' = "filtered"
    /\ UNCHANGED <<OPENAI_API_KEY, taxonomy, cleaned, metrics, results,
                   runVars, callVars, riskVars, appVars>>

\* Lines 100-123: "Export Data" is pressed with one of the two formats; the
\* stored frame is written out as text, here the rows it has.
ExportData ==
    /\ pc = "filtered"
    /\ session_state.data_classified
    /\ \E export_format \in {"CSV", "JSON"} :
          view' = [view EXCEPT !.exported =
                      <<[format |-> export_format,
                         records |-> session_state.classified_df.rows]>>]
    /\ pc' = "exported"
    /\ UNCHANGED <<OPENAI_API_KEY, taxonomy, cleaned, metrics, results,
                   runVars, callVars, riskVars, appVars>>

\* The state of a fresh session (lines 37-40) with some CSV file to load.
\* An exception of run_classification (pc = "run_raised") ends the script
\* run with session_state as it was.
Init ==
    /\ pc = "idle"
    /\ OPENAI_API_KEY \in {NoKey, <<"sk-test">>}
    /\ csv \in CsvFiles
    /\ classification_methods = <<>>
    /\ session_state = NoSession
    /\ applied = <<>>
    /\ df = NoFrame /\ method = "" /\ run = NoRun
    /\ CallIdle /\ RiskIdle /\ AggIdle /\ ConfigLoaded

Next ==
    \/ PressRunClassification
    \/ ApplyNextMethod
    \/ ClassifyNextRow
    \/ AssignRunResult
    \/ AssessRisk
    \/ RenderDashboard
    \/ FilterData
    \/ ExportData

Spec == Init /\ [][Next]_vars

-----------------------------------------------------------------------------
(* Properties of the classifiers.                                          *)

\* Taxonomy.is_valid(domain, subdomain)
IsValid(pair) ==
    /\ Len(pair) = 2
    /\ \E i \in 1..Len(TRM_DOMAINS_KEYS) :
          /\ TRM_DOMAINS_KEYS[i] = pair[1]
          /\ \E j \in 1..Len(TRM_DOMAINS_SUBDOMAINS[pair[1]]) :
                TRM_DOMAINS_SUBDOMAINS[pair[1]][j] = pair[2]

Sentinel == <<"Unclassified", "Unclassified">>

\* The domains, by position in the taxonomy's order, one of whose keywords
\* is a substring of the text rule_based_classify searches: the lowercased
\* description, a space, the lowercased hint.
MatchingPositions ==
    UNION {{i \in 1..Len(TRM_DOMAINS_KEYS) :
              /\ TRM_DOMAINS_KEYS[i] \in DOMAIN CLASSIFICATION_KEYWORDS
              /\ \E k \in 1..Len(CLASSIFICATION_KEYWORDS[TRM_DOMAINS_KEYS[i]]) :
                    Contains(CLASSIFICATION_KEYWORDS[TRM_DOMAINS_KEYS[i]][k],
                             text)} :
           text \in {lower(description) \o " " \o lower(hint)}}

\* C1: every pair either classifier returns -- without a credential, for any
\* response string of the service, after a failure of the service -- is a
\* domain of the taxonomy with one of that domain's subdomains.
C1_ReturnedPairIsValid ==
    pc \in {"rule_returned", "llm_returned"} => IsValid(result.value)

C1_Witness ==
    /\ pc = "llm_returned"
    /\ service = Responds("Security, Firewalling")
    /\ result.value = <<"Security", "Security Tools">>

\* C3: with a credential configured, when the service call fails,
\* llm_classify returns the pair rule_based_classify returns for the same
\* description and hint, whatever the product name.
C3_FailureFallsBackToRule ==
    (/\ pc = "llm_returned"
     /\ OPENAI_API_KEY = <<"sk-test">>
     /\ service.fails \in {"create", "content"})
    => result.value = rule_based_classify(description, hint)

C3_Witness ==
    /\ pc = "llm_returned"
    /\ OPENAI_API_KEY = <<"sk-test">>
    /\ service = CreateRaises
    /\ description = "firewall" /\ hint = "Git"
    /\ result.value = <<"Security", "Security Tools">>

\* C4: no failure after the credential check leaves llm_classify: the call
\* returns the rule classifier's pair with one warning, whether the client's
\* construction, the request or the reading of the content failed.
C4_NoFailurePropagates ==
    (/\ pc \in {"llm_returned", "llm_raised"}
     /\ service.fails \in {"client", "create", "content"})
    => /\ pc = "llm_returned"
       /\ ~result.raised
       /\ Len(result.warnings) = 1
       /\ result.value = rule_based_classify(description, hint)

\* C5: when a keyword of some domain is in the searched text,
\* rule_based_classify returns the matching domain declared earliest in
\* TRM_DOMAINS_SUBDOMAINS with that domain's first subdomain.
C5_EarliestDomainWins ==
    (pc = "rule_returned" /\ MatchingPositions # {})
    => LET d == TRM_DOMAINS_KEYS[Min(MatchingPositions)]
       IN  result.value = <<d, TRM_DOMAINS_SUBDOMAINS[d][1]>>

C5_Witness ==
    /\ pc = "rule_returned"
    /\ description = "security database"
    /\ hint = ""
    /\ Cardinality(MatchingPositions) = 2
    /\ result.value = <<"Data Management", "Database Platforms">>

\* C6: rule_based_classify returns a pair for every description and hint,
\* and the pair is the sentinel exactly when no keyword of any domain is in
\* the searched text.
C6_SentinelIffNoKeyword ==
    pc = "rule_returned"
    => /\ ~result.raised
       /\ Len(result.value) = 2
       /\ (result.value = Sentinel <=> MatchingPositions = {})

C6_Witness ==
    /\ pc = "rule_returned"
    /\ description = "" /\ hint = ""
    /\ result.value = Sentinel

\* C7: a response of exactly two parts whose trimmed first part is a domain
\* and whose trimmed second part is not one of its subdomains yields that
\* domain with its first subdomain.
C7_SubdomainRepaired ==
    (/\ pc = "llm_returned"
     /\ service.fails = "none"
     /\ Len(split(service.content, ", ")) = 2
     /\ \E i \in 1..Len(TRM_DOMAINS_KEYS) :
          /\ TRM_DOMAINS_KEYS[i] = strip(split(service.content, ", ")[1])
          /\ \A j \in 1..Len(TRM_DOMAINS_SUBDOMAINS[TRM_DOMAINS_KEYS[i]]) :
                TRM_DOMAINS_SUBDOMAINS[TRM_DOMAINS_KEYS[i]][j]
                    # strip(split(service.content, ", ")[2]))
    => LET d == strip(split(service.content, ", ")[1])
       IN  result.value = <<d, TRM_DOMAINS_SUBDOMAINS[d][1]>>

C7_Witness ==
    /\ pc = "llm_returned"
    /\ service = Responds(" Security, Firewalling")
    /\ description = "proxy"
    /\ result.value = <<"Security", "Security Tools">>

\* C8: without a credential (None or the empty string) llm_classify sends
\* no request, emits one warning and returns rule_based_classify's pair.
C8_NoCredentialNoRequest ==
    (pc = "llm_returned" /\ OPENAI_API_KEY \in {NoKey, <<"">>})
    => /\ result.requests = <<>>
       /\ Len(result.warnings) = 1
       /\ result.value = rule_based_classify(description, hint)

C8_Witness ==
    /\ pc = "llm_returned"
    /\ OPENAI_API_KEY = <<"">>
    /\ result.requests = <<>>
    /\ result.warnings = <<KEY_WARNING>>
    /\ result.value = <<"Network", "Networking Tools">>

-----------------------------------------------------------------------------
(* Properties of flag_risk.                                                *)

\* The row has the three columns the rules read, a lifecycle status that is
\* one of the four names in some letter case, and a taxonomy domain.
C2_InScope ==
    /\ DOMAIN row = {"Lifecycle Status", "Vendor", "TRM Domain"}
    /\ \E i \in 1..Len(LIFECYCLE_STATUSES) :
          lower(row["Lifecycle Status"][1]) = lower(LIFECYCLE_STATUSES[i])
    /\ row["TRM Domain"] # <<>>

C2_Deprecated == lower(row["Lifecycle Status"][1]) = "deprecated"
C2_Beta == lower(row["Lifecycle Status"][1]) = "beta"
C2_VendorBlank ==
    \/ row["Vendor"] = <<>>
    \/ \A i \in 1..Len(row["Vendor"][1]) :
          Char(row["Vendor"][1], i) \in {" ", "\t", "\n", "\r"}
C2_Unclassified == row["TRM Domain"] = <<"Unclassified">>

\* C2: flag_risk returns one of the three levels, the one of the first rule
\* that matches: deprecated, vendor null or blank, sentinel domain (all
\* High-Risk), beta (Medium-Risk), otherwise Normal.
C2_FirstMatchingRule ==
    (pc = "risk_returned" /\ C2_InScope)
    => /\ risk \in {"High-Risk", "Medium-Risk", "Normal"}
       /\ (C2_Deprecated => risk = "High-Risk")
       /\ (~C2_Deprecated /\ C2_VendorBlank => risk = "High-Risk")
       /\ (~C2_Deprecated /\ ~C2_VendorBlank /\ C2_Unclassified
              => risk = "High-Risk")
       /\ (~C2_Deprecated /\ ~C2_VendorBlank /\ ~C2_Unclassified /\ C2_Beta
              => risk = "Medium-Risk")
       /\ (~C2_Deprecated /\ ~C2_VendorBlank /\ ~C2_Unclassified /\ ~C2_Beta
              => risk = "Normal")

\* Beta with a whitespace-only vendor: High-Risk, not Medium-Risk.
C2_Witness ==
    /\ pc = "risk_returned"
    /\ C2_InScope
    /\ row["Lifecycle Status"] = <<"BEta">>
    /\ row["Vendor"] = <<" \t">>
    /\ row["TRM Domain"] = <<"Development">>
    /\ risk = "High-Risk"

-----------------------------------------------------------------------------
(* Properties of run_classification and of the application's loop.         *)

\* The pair written on the row at position i of a frame.
Annotation(frame, i) ==
    <<frame.rows[i]["TRM Domain"], frame.rows[i]["TRM Subdomain"]>>

\* The pair as the cells hold it.
Cells(pair) == <<<<pair[1]>>, <<pair[2]>>>>

\* C9: run_classification returns as many records as it was given, under
\* the same labels and with the same other fields, and the pair on the
\* record at each position is what the classifier returned for the record
\* at that position -- also when row labels repeat.
C9_EachRecordOwnResult ==
    pc = "run_returned"
    => /\ Len(run.df.rows) = Len(df.rows)
       /\ run.df.index = df.index
       /\ Len(run.returned) = Len(df.rows)
       /\ \A i \in 1..Len(df.rows) :
            /\ Annotation(run.df, i) = Cells(run.returned[i])
            /\ method = "rule-based"
                 => run.returned[i] =
                      rule_based_classify(PyStr(df.rows[i]["Description"]),
                                          PyStr(HintOf(df.rows[i])))
            /\ \A c \in DOMAIN df.rows[i] \ {"TRM Domain", "TRM Subdomain"} :
                  run.df.rows[i][c] = df.rows[i][c]

\* C10: after two strategies were applied in sequence, the pair on every
\* stored record is what the last applied strategy returned for it.
C10_LastStrategyWins ==
    (pc = "classified" /\ Len(applied) >= 2)
    => \A i \in 1..Len(session_state.classified_df.rows) :
          Annotation(session_state.classified_df, i)
              = Cells(applied[Len(applied)].returned[i])

\* The earlier strategy had written another pair on the second record.
C10_Witness ==
    /\ pc = "classified"
    /\ classification_methods = <<"llm-based", "rule-based">>
    /\ Len(applied) = 2
    /\ Len(applied[2].returned) = 2
    /\ applied[1].returned[2] = <<"Security", "Encryption">>
    /\ applied[2].returned[2] = <<"Development", "IDEs">>
    /\ Annotation(session_state.classified_df, 2) = Cells(<<"Development", "IDEs">>)

-----------------------------------------------------------------------------
(* Properties of flag_risk on records without a usable vendor or domain.   *)

C11_NotDeprecated ==
    \/ "Lifecycle Status" \notin DOMAIN row
    \/ lower(row["Lifecycle Status"][1]) # "deprecated"

\* The record has no vendor field.
C11_VendorAbsent == "Vendor" \notin DOMAIN row

\* The vendor field is null, or empty once trimmed.
C11_VendorNullOrBlank ==
    /\ "Vendor" \in DOMAIN row
    /\ \/ row["Vendor"] = <<>>
       \/ \A i \in 1..Len(row["Vendor"][1]) :
             Char(row["Vendor"][1], i) \in {" ", "\t", "\n", "\r"}

\* C11: flag_risk returns High-Risk for every record that is not deprecated
\* and whose vendor is absent, null, or empty after trimming, whatever its
\* domain and lifecycle status.
C11_MissingVendorIsHighRisk ==
    (pc = "risk_returned" /\ C11_NotDeprecated
        /\ (C11_VendorAbsent \/ C11_VendorNullOrBlank))
    => risk = "High-Risk"

\* The record was never classified: its domain field is absent or null.
C17_NeverClassified ==
    \/ "TRM Domain" \notin DOMAIN row
    \/ row["TRM Domain"] = <<>>

\* The vendor field holds a name.
C17_VendorNamed ==
    /\ "Vendor" \in DOMAIN row
    /\ row["Vendor"] # <<>>
    /\ \E i \in 1..Len(row["Vendor"][1]) :
          Char(row["Vendor"][1], i) \notin {" ", "\t", "\n", "\r"}

\* C17: flag_risk treats a record that was never classified like one
\* classified to the sentinel domain: when it is not deprecated and its
\* vendor is not blank, the result is High-Risk.
C17_NeverClassifiedIsHighRisk ==
    (pc = "risk_returned" /\ C11_NotDeprecated /\ C17_VendorNamed
        /\ C17_NeverClassified)
    => risk = "High-Risk"

-----------------------------------------------------------------------------
(* Properties of generate_risk_metrics.                                    *)

\* C12: generate_risk_metrics on an empty record set does not fail: it
\* returns total = 0, no counts and no percentages, and the three sub-counts
\* are 0.
C12_EmptySetIsZeroValued ==
    (pc \in {"metrics_returned", "metrics_raised"} /\ Len(df.rows) = 0)
    => /\ pc = "metrics_returned"
       /\ metrics.total = 0
       /\ DOMAIN metrics.counts = {}
       /\ DOMAIN metrics.percentages = {}
       /\ metrics.deprecated_count = 0
       /\ metrics.missing_vendor_count = 0
       /\ metrics.unclassified_count = 0

\* An empty frame that has the four columns.
C12_Witness ==
    /\ pc = "metrics_returned"
    /\ Len(df.rows) = 0
    /\ df.columns = MetricColumns
    /\ metrics.total = 0

RECURSIVE SumOver(_, _)
SumOver(f, keys) ==
    IF keys = {} THEN 0
    ELSE LET k == CHOOSE x \in keys : TRUE
         IN  f[k] + SumOver(f, keys \ {k})

\* Every record of the frame carries a risk level.
C13_EveryRecordHasLevel ==
    /\ "Risk Flag" \in df.columns
    /\ \A i \in 1..Len(df.rows) : df.rows[i]["Risk Flag"] # <<>>

\* C13: for a non-empty record set in which every record carries a risk
\* level, total is the record count, the counts of the levels sum to total,
\* every percentage is count/total*100 rounded to one decimal, and the
\* percentages sum to 100.0 within 0.1 for each level present.
C13_CountsAndPercentagesAddUp ==
    (pc \in {"metrics_returned", "metrics_raised"}
        /\ Len(df.rows) > 0 /\ C13_EveryRecordHasLevel)
    => /\ pc = "metrics_returned"
       /\ metrics.total = Len(df.rows)
       /\ SumOver(metrics.counts, DOMAIN metrics.counts) = metrics.total
       /\ DOMAIN metrics.percentages = DOMAIN metrics.counts
       /\ \A k \in DOMAIN metrics.counts :
             LET off == metrics.percentages[k] * metrics.total
                            - 1000 * metrics.counts[k]
             IN  2 * off <= metrics.total /\ -2 * off <= metrics.total
       /\ LET off == SumOver(metrics.percentages, DOMAIN metrics.percentages) - 1000
              levels == Cardinality(DOMAIN metrics.counts)
          IN  off <= levels /\ -off <= levels

\* Three records, one of each level: 33.3 + 33.3 + 33.3 = 99.9.
C13_Witness ==
    /\ pc = "metrics_returned"
    /\ C13_EveryRecordHasLevel
    /\ metrics.total = 3
    /\ DOMAIN metrics.counts = {"High-Risk", "Medium-Risk", "Normal"}
    /\ metrics.percentages["Normal"] = 333
    /\ SumOver(metrics.percentages, DOMAIN metrics.percentages) = 999

-----------------------------------------------------------------------------
(* Requests of one run_classification call.                                *)

\* The request the core sends for the record at position i of the frame.
C14_RequestFor(frame, i) ==
    Prompt(PyStr(frame.rows[i]["Product Name"]),
           PyStr(frame.rows[i]["Description"]),
           PyStr(HintOf(frame.rows[i])))

\* C14: an llm-based run over n records with a credential configured sends
\* exactly n requests to the service, the i-th being the request for the
\* i-th record: one per record, none repeated after a failure.
C14_OneRequestPerRecord ==
    (pc \in {"run_returned", "run_raised"}
        /\ method = "llm-based" /\ ~KeyMissing(OPENAI_API_KEY))
    => /\ Len(run.requests) = Len(df.rows)
       /\ \A i \in 1..Len(df.rows) : run.requests[i] = C14_RequestFor(df, i)

-----------------------------------------------------------------------------
(* Properties of llm_classify on the shapes of the service's answer.       *)

\* The service answered with a text, and the call returned.
C15_Answered ==
    /\ pc = "llm_returned"
    /\ ~KeyMissing(OPENAI_API_KEY)
    /\ service.fails = "none"

\* The answer, trimmed and in lower case, is the sentinel token.
C15_IsSentinelToken == lower(strip(service.content)) = "unclassified"

\* Splitting the answer on ", " does not give exactly two parts, or the
\* trimmed first part is not a domain of the taxonomy.
C15_Malformed ==
    \E parts \in {split(service.content, ", ")} :
        \/ Len(parts) # 2
        \/ strip(parts[1]) \notin Range(TRM_DOMAINS_KEYS)

\* C15: when the service's answer is not the sentinel token and it does not
\* split on ", " into exactly two parts, or its trimmed first part is not a
\* taxonomy domain, llm_classify returns the sentinel pair, without a
\* warning and without asking the rule classifier.
C15_MalformedAnswerIsSentinel ==
    (C15_Answered /\ ~C15_IsSentinelToken /\ C15_Malformed)
    => /\ result.value = <<"Unclassified", "Unclassified">>
       /\ result.warnings = <<>>

\* Three parts, for a record the rule classifier would have classified.
C15_Witness ==
    /\ C15_Answered
    /\ service.content = "Security, Encryption, AES"
    /\ description = "SQL firewall"
    /\ rule_based_classify(description, hint) # <<"Unclassified", "Unclassified">>
    /\ result.value = <<"Unclassified", "Unclassified">>

\* C16: when the service's answer, trimmed and in lower case, equals
\* 'unclassified', llm_classify returns ('Unclassified', 'Unclassified').
C16_SentinelTokenIsSentinel ==
    (C15_Answered /\ C15_IsSentinelToken)
    => result.value = <<"Unclassified", "Unclassified">>

\* The token in capitals inside whitespace, which line 87 does not match.
C16_Witness ==
    /\ C15_Answered
    /\ service.content = "\tUNCLASSIFIED "
    /\ lower(service.content) # "unclassified"
    /\ description = "SQL firewall"
    /\ result.value = <<"Unclassified", "Unclassified">>

-----------------------------------------------------------------------------
(* Properties of clean_data.                                               *)

\* The canonical names the raw status equals when letter case is ignored.
C18_NamesOf(cell) ==
    IF cell = <<>> THEN {}
    ELSE {n \in Range(LIFECYCLE_STATUSES) : lower(n) = lower(cell[1])}

\* The frame has the lifecycle column.
C18_HasStatuses ==
    \A i \in 1..Len(df.rows) : "Lifecycle Status" \in DOMAIN df.rows[i]

\* C18: clean_data ends with every lifecycle status among Active, Deprecated,
\* Planned and Beta: a raw status that is one of these names in some letter
\* case becomes that name, any other text and a missing value become Active;
\* a second clean_data returns what the first returned.
C18_StatusesNormalizedOnce ==
    (pc \in {"cleaned", "clean_raised"} /\ C18_HasStatuses)
    => /\ pc = "cleaned"
       /\ Len(cleaned[1].rows) = Len(df.rows)
       /\ \A i \in 1..Len(df.rows) :
             \E names \in {C18_NamesOf(df.rows[i]["Lifecycle Status"])} :
                /\ cleaned[1].rows[i]["Lifecycle Status"][1]
                       \in Range(LIFECYCLE_STATUSES)
                /\ \A n \in names :
                       cleaned[1].rows[i]["Lifecycle Status"] = <<n>>
                /\ names = {}
                       => cleaned[1].rows[i]["Lifecycle Status"] = <<"Active">>
       /\ Len(cleaned) = 2 => cleaned[2] = cleaned[1]

-----------------------------------------------------------------------------
(* Properties of the taxonomy.                                             *)

\* Position of a domain among the keys of the domain map.
C19_Position(d) ==
    CHOOSE i \in 1..Len(taxonomy.TRM_DOMAINS_SUBDOMAINS.keys) :
        taxonomy.TRM_DOMAINS_SUBDOMAINS.keys[i] = d

\* Every domain with keywords is a key of the domain map, every domain has
\* a subdomain, the sentinel domain has the sentinel subdomain alone and no
\* keywords, and the keyword map keeps the order of the domain map.
C19_WellFormed ==
    /\ Range(taxonomy.TRM_DOMAINS_SUBDOMAINS.keys)
           = DOMAIN taxonomy.TRM_DOMAINS_SUBDOMAINS.map
    /\ Range(taxonomy.CLASSIFICATION_KEYWORDS.keys)
           = DOMAIN taxonomy.CLASSIFICATION_KEYWORDS.map
    /\ DOMAIN taxonomy.CLASSIFICATION_KEYWORDS.map
           \subseteq DOMAIN taxonomy.TRM_DOMAINS_SUBDOMAINS.map
    /\ \A d \in DOMAIN taxonomy.TRM_DOMAINS_SUBDOMAINS.map :
           Len(taxonomy.TRM_DOMAINS_SUBDOMAINS.map[d]) > 0
    /\ "Unclassified" \in DOMAIN taxonomy.TRM_DOMAINS_SUBDOMAINS.map
    /\ taxonomy.TRM_DOMAINS_SUBDOMAINS.map["Unclassified"] = <<"Unclassified">>
    /\ "Unclassified" \notin DOMAIN taxonomy.CLASSIFICATION_KEYWORDS.map
    /\ \A i, j \in 1..Len(taxonomy.CLASSIFICATION_KEYWORDS.keys) :
           i < j => C19_Position(taxonomy.CLASSIFICATION_KEYWORDS.keys[i])
                        < C19_Position(taxonomy.CLASSIFICATION_KEYWORDS.keys[j])

\* C19: the taxonomy is well formed in every state, and no step of loading,
\* classification, risk assessment or aggregation changes either map.
C19_TaxonomyStaysWellFormed ==
    [](C19_WellFormed) /\ [][taxonomy' = taxonomy]_vars

\* Both classifiers, the risk assessment and the metrics have run.
C19_Witness ==
    /\ pc = "displayed"
    /\ Len(applied) = 2
    /\ Len(applied[2].returned) = 2
    /\ session_state.classified_df.rows[1]["Risk Flag"] # <<>>
    /\ metrics.total = 2
    /\ C19_WellFormed

-----------------------------------------------------------------------------
(* Properties of classify_software.                                        *)

\* Positions of the pairs whose domain is d.
C20_PairsOf(d) ==
    {i \in 1..Len(results.classifications) : results.classifications[i][1] = d}

\* C20: the result of classify_software has one pair for each record, in
\* the order of the records; domain_counts has a key for each domain that
\* occurs, its value the number of pairs with that domain, and the values
\* sum to the number of records; unclassified_count is the number of pairs
\* with the sentinel domain.
C20_ResultsAreConsistent ==
    pc = "software_returned"
    => /\ Len(results.classifications) = Len(df.rows)
       /\ \A i \in 1..Len(df.rows) :
            /\ IsValid(results.classifications[i])
            /\ method = "rule-based"
                 => results.classifications[i] =
                      rule_based_classify(PyStr(df.rows[i]["Description"]),
                                          PyStr(HintOf(df.rows[i])))
       /\ Range(results.domain_counts.keys) = DOMAIN results.domain_counts.map
       /\ DOMAIN results.domain_counts.map =
              {results.classifications[i][1] : i \in 1..Len(df.rows)}
       /\ \A d \in DOMAIN results.domain_counts.map :
              results.domain_counts.map[d] = Cardinality(C20_PairsOf(d))
       /\ SumOver(results.domain_counts.map, DOMAIN results.domain_counts.map)
              = Len(df.rows)
       /\ results.unclassified_count = Cardinality(C20_PairsOf("Unclassified"))

\* A record the rules classify, followed by one they do not.
C20_Witness ==
    /\ pc = "software_returned"
    /\ method = "rule-based"
    /\ results.classifications =
           <<<<"Data Management", "Database Platforms">>,
             <<"Unclassified", "Unclassified">>>>
    /\ results.domain_counts.keys = <<"Data Management", "Unclassified">>
    /\ results.unclassified_count = 1

-----------------------------------------------------------------------------
(* Properties of the application's pipeline.                               *)

\* The script has stored a frame and is past the risk assessment.
C21_Stored == pc \in {"classified", "displayed", "filtered", "exported"}

\* The record of the file at position i as flag_risk is to see it: the
\* lifecycle status normalized, the vendor as loaded, the domain the last
\* selected strategy returned.
C21_Scored(i) ==
    [c \in {"Lifecycle Status", "Vendor", "TRM Domain"} |->
        CASE c = "Lifecycle Status" -> CleanRow(csv[i])["Lifecycle Status"]
          [] c = "Vendor" -> csv[i]["Vendor"]
          [] c = "TRM Domain" -> <<applied[Len(applied)].returned[i][1]>>]

\* Until every selected strategy has run no risk level is written and
\* nothing is stored; what is stored afterwards has, for each record of the
\* file, the risk level of its normalized lifecycle, its vendor and its
\* last domain.
C21_RiskAfterClassification ==
    /\ pc \in {"classifying", "run_loop", "run_raised"}
          => /\ ~session_state.data_classified
             /\ \A i \in 1..Len(df.rows) : df.rows[i]["Risk Flag"] = <<>>
    /\ C21_Stored
          => /\ session_state.data_classified
             /\ Len(applied) = Len(classification_methods)
             /\ Len(session_state.classified_df.rows) = Len(csv)
             /\ \A i \in 1..Len(csv) :
                   /\ session_state.classified_df.rows[i]["Lifecycle Status"]
                          = CleanRow(csv[i])["Lifecycle Status"]
                   /\ session_state.classified_df.rows[i]["Lifecycle Status"][1]
                          \in Range(LIFECYCLE_STATUSES)
                   /\ Len(applied) > 0
                          => session_state.classified_df.rows[i]["Risk Flag"]
                                 = <<flag_risk(C21_Scored(i))>>

\* C21: the run pipeline loads and normalizes, then classifies with every
\* selected strategy, then scores the risk, so that the stored Risk Flag of
\* each record is flag_risk of its normalized lifecycle, its vendor and the
\* domain of the last selected strategy; no later step, filtering and
\* export among them, changes the stored records.
C21_PipelineOrder ==
    /\ [](C21_RiskAfterClassification)
    /\ [][session_state.data_classified => session_state' = session_state]_vars

\* Two strategies ran, the last one left the first record unclassified and
\* so High-Risk; the filter then dropped a record and the export was made.
C21_Witness ==
    /\ pc = "exported"
    /\ Len(applied) = 2
    /\ Len(csv) = 2
    /\ csv[1]["Lifecycle Status"] = <<"beta">>
    /\ applied[1].returned[1][1] = "Data Management"
    /\ applied[2].returned[1][1] = "Unclassified"
    /\ session_state.classified_df.rows[1]["Risk Flag"] = <<"High-Risk">>
    /\ Len(view.filtered_df.rows) = 1
    /\ view.exported # <<>>

\* The stored record at position i carries a pair of the taxonomy and one
\* of the three risk levels.
C22_Annotated(i) ==
    /\ session_state.classified_df.rows[i]["TRM Domain"] # <<>>
    /\ session_state.classified_df.rows[i]["TRM Subdomain"] # <<>>
    /\ IsValid(<<session_state.classified_df.rows[i]["TRM Domain"][1],
                 session_state.classified_df.rows[i]["TRM Subdomain"][1]>>)
    /\ session_state.classified_df.rows[i]["Risk Flag"]
           \in {<<"High-Risk">>, <<"Medium-Risk">>, <<"Normal">>}

\* C22: whenever data_classified is true, every stored record carries a
\* taxonomy-valid (domain, subdomain) pair and a risk level, whatever
\* methods were selected, none included.
C22_ClassifiedMeansAnnotated ==
    session_state.data_classified
    => \A i \in 1..Len(session_state.classified_df.rows) : C22_Annotated(i)

\* The stored records flag_risk's vendor rule speaks of: vendor null, or
\* empty once trimmed.
C23_VendorRuleRecords ==
    {i \in 1..Len(session_state.classified_df.rows) :
        \/ session_state.classified_df.rows[i]["Vendor"] = <<>>
        \/ strip(session_state.classified_df.rows[i]["Vendor"][1]) = ""}

\* The stored records flag_risk's deprecation rule speaks of.
C23_DeprecatedRuleRecords ==
    {i \in 1..Len(session_state.classified_df.rows) :
        lower(session_state.classified_df.rows[i]["Lifecycle Status"][1])
            = "deprecated"}

\* C23: the sub-counts of generate_risk_metrics agree with flag_risk's rules
\* on the same records: missing_vendor_count counts the records whose vendor
\* is null or empty after trimming, deprecated_count those whose lifecycle
\* status is 'deprecated' in any letter case.
C23_SubCountsFollowRiskRules ==
    pc = "displayed"
    => /\ metrics.missing_vendor_count = Cardinality(C23_VendorRuleRecords)
       /\ metrics.deprecated_count = Cardinality(C23_DeprecatedRuleRecords)

\* The frame the running call of run_classification was handed by the loop
\* of app.py lines 86-88: the loaded frame for the first strategy, the
\* frame the previous call returned for every later one.
C24_Input ==
    IF Len(applied) = 0 THEN load_data(csv) ELSE applied[Len(applied)].df

C24_Annotations == {"TRM Domain", "TRM Subdomain"}

\* result_df has the rows and labels of the input and differs from it in
\* the two annotation columns at most.
C24_OnlyAnnotationsDiffer(input, output) ==
    /\ output.index = input.index
    /\ Len(output.rows) = Len(input.rows)
    /\ \A i \in 1..Len(input.rows) :
        /\ DOMAIN output.rows[i] = DOMAIN input.rows[i]
        /\ \A c \in DOMAIN input.rows[i] \ C24_Annotations :
            output.rows[i][c] = input.rows[i][c]

\* C24: while run_classification runs and when it has ended, by returning
\* or by an exception, the frame it was handed is what it was at the call,
\* and the frame it annotates differs from it in TRM Domain and
\* TRM Subdomain at most.
C24_InputLeftUnchanged ==
    pc \in {"run_loop", "run_raised"} =>
        /\ df = C24_Input
        /\ C24_OnlyAnnotationsDiffer(df, run.df)

\* The second selected strategy has annotated every row of a frame the
\* first one had annotated already, and changed a domain of it.
C24_Witness ==
    /\ pc = "run_loop"
    /\ Len(applied) = 1
    /\ Len(df.rows) > 0
    /\ Len(run.returned) = Len(df.rows)
    /\ df.rows[1]["TRM Domain"] # <<>>
    /\ run.df.rows[1]["TRM Domain"] # df.rows[1]["TRM Domain"]

\* C25: a call of run_classification with a strategy other than 'llm-based'
\* ('rule-based', or a name outside AVAILABLE_METHODS) sends no request to
\* the completion service, at any point of the call.
C25_RequestsOnlyForLlmBased ==
    method # "llm-based" => run.requests = <<>>

=============================================================================
